---------------------------- MODULE Spec2Model ----------------------------
(***************************************************************************)
(* Model of btc_update.py: the bounded price history kept in history.txt,  *)
(* the README written from it, and the ASCII line chart renderer.          *)
(*                                                                         *)
(* Python lists are modelled as TLA+ sequences (position i of the source   *)
(* is position i+1 here); dicts are functions from keys to values, so the  *)
(* empty dict is the function with the empty domain.  The chart grid is a  *)
(* function from rows 0..height-1 to functions from columns 0..n-1 to      *)
(* one-character strings, indexed as in the source.                        *)
(***************************************************************************)
EXTENDS Integers, Sequences, FiniteSets, TLC

VARIABLES historyFile, readme, clock, last,
          values, height, levels, grid, rendered

vars == <<historyFile, readme, clock, last, values, height, levels, grid, rendered>>

storeVars == <<historyFile, readme, clock, last>>

chartVars == <<values, height, levels, grid, rendered>>

(***************************************************************************)
(* Program constants and model bounds                                      *)
(***************************************************************************)
MAX_RETAINED == 10

DefaultHeight == 8

MaxRuns == 2

MaxLen == 4

MaxVal == 4

MaxHeight == 8

MaxRamp == 12

WideHeight == 50

Prices == {1, 2}

usd == "USD"

kor == "KRW"

(***************************************************************************)
(* Python built-ins used by the source                                     *)
(***************************************************************************)
PyMin(s) == CHOOSE m \in {s[i] : i \in DOMAIN s} : \A i \in DOMAIN s : m <= s[i]

PyMax(s) == CHOOSE m \in {s[i] : i \in DOMAIN s} : \A i \in DOMAIN s : m >= s[i]

\* range(start, stop): start, start+1, ..., stop-1
RangeUp(start, stop) == start .. (stop - 1)

\* mutant: the descending range also visits its stop value
RangeDownInclusive(start, stop) == stop .. start

\* range(start, stop, -1): start, start-1, ..., stop+1
RangeDown(start, stop) == (stop + 1) .. start

\* history[-k:]
LastK(s, k) == IF Len(s) <= k THEN s ELSE SubSeq(s, Len(s) - k + 1, Len(s))

(***************************************************************************)
(* make_ascii_line_chart                                                   *)
(***************************************************************************)
\* mutant: the scaled position is rounded to the nearest integer (half up)
LevelsRounded(vs, h) ==
    LET min_v == PyMin(vs)
        max_v == PyMax(vs)
    IN  IF max_v = min_v
        THEN [i \in 1..Len(vs) |-> h \div 2]
        ELSE [i \in 1..Len(vs) |->
                (2 * (vs[i] - min_v) * (h - 1) + (max_v - min_v)) \div (2 * (max_v - min_v))]

\* mutant: the scaled position is multiplied by height instead of height - 1
LevelsScaledByHeight(vs, h) ==
    LET min_v == PyMin(vs)
        max_v == PyMax(vs)
    IN  IF max_v = min_v
        THEN [i \in 1..Len(vs) |-> h \div 2]
        ELSE [i \in 1..Len(vs) |-> ((vs[i] - min_v) * h) \div (max_v - min_v)]

RECURSIVE Pow2(_)
\* 2 ** n
Pow2(n) == IF n <= 0 THEN 1 ELSE 2 * Pow2(n - 1)

RECURSIVE FloorLog2(_)
\* the exponent of the binade of the positive integer k
FloorLog2(k) == IF k < 2 THEN 0 ELSE 1 + FloorLog2(k \div 2)

RECURSIVE RemPow2(_, _, _)
\* (r * 2 ** s) % d for 0 <= r < d, by doubling
RemPow2(r, d, s) == IF s = 0 THEN r ELSE RemPow2((2 * r) % d, d, s - 1)

RECURSIVE QuotientShift(_, _, _)
\* the least j' >= j with a * 2 ** j' >= d: a / d lies in [2 ** -j', 2 ** (1 - j'))
QuotientShift(a, d, j) == IF a * Pow2(j) >= d THEN j ELSE QuotientShift(a, d, j + 1)

\* The double a / d * m lies below the integer a * m / d (0 < a < d, m > 0).
\* a / d is rounded to 53 bits: the quotient of a * 2 ** (52 + j) by d, with
\* remainder r, rounded to nearest (ties to even).  When it is rounded down,
\* the product with m falls short of the integer k = a * m / d by
\* m * r / d units of 2 ** -(52 + j), and is rounded to a double below k when
\* that exceeds half the spacing of the doubles just below k.
FloatProductBelow(a, d, m) ==
    IF a = 0 \/ a = d \/ m = 0 \/ (a * m) % d # 0
    THEN FALSE
    ELSE LET k    == (a * m) \div d
             j    == QuotientShift(a, d, 1)
             r1   == RemPow2(a % d, d, 52 + j - 1)
             bit  == (2 * r1) \div d
             r    == (2 * r1) % d
             down == 2 * r < d \/ (2 * r = d /\ bit = 0)
             e    == FloorLog2(k)
         IN  /\ down
             /\ r # 0
             /\ IF k = Pow2(e)
                THEN 4 * m * r > d * Pow2(e + j)
                ELSE 2 * m * r > d * Pow2(e + j)

\* int(a / d * m) for integers 0 <= a <= d, m >= 0: the division and the
\* product are double operations, int() drops the fraction
PyIntScaled(a, d, m) ==
    (a * m) \div d - (IF FloatProductBelow(a, d, m) THEN 1 ELSE 0)

\* levels: [height // 2] * len(values) when max_v == min_v, else
\* int((v - min_v) / (max_v - min_v) * (height - 1)) for each v
Levels(vs, h) ==
    LET min_v == PyMin(vs)
        max_v == PyMax(vs)
    IN  IF max_v = min_v
        THEN [i \in 1..Len(vs) |-> h \div 2]
        ELSE [i \in 1..Len(vs) |-> PyIntScaled(vs[i] - min_v, max_v - min_v, h - 1)]

\* grid = [[" " for _ in range(len(values))] for _ in range(height)]
BlankGrid(n, h) == [r \in 0..(h - 1) |-> [c \in 0..(n - 1) |-> " "]]

\* grid[y][col] = glyph for every y in rows
SetCells(g, rows, col, glyph) ==
    [r \in DOMAIN g |-> IF r \in rows THEN [g[r] EXCEPT ![col] = glyph] ELSE g[r]]

\* one iteration of "for i, lvl in enumerate(levels)" (i is the source index)
PlotPoint(g, lv, h, i) ==
    LET lvl == lv[i + 1]
        row == h - 1 - lvl
        g1  == SetCells(g, {row}, i, "*")
    IN  IF i > 0
        THEN LET prev_lvl == lv[i]
             IN  IF lvl > prev_lvl
                 THEN SetCells(g1, RangeDown(h - 1 - prev_lvl - 1, row), i - 1, "/")
                 ELSE IF lvl < prev_lvl
                 THEN SetCells(g1, RangeUp(row + 1, h - 1 - prev_lvl), i - 1, "\\")
                 ELSE SetCells(g1, {row}, i - 1, "_")
        ELSE g1

RECURSIVE PlotFrom(_, _, _, _)
\* the loop over enumerate(levels), from source index i to the end
PlotFrom(g, lv, h, i) ==
    IF i >= Len(lv) THEN g ELSE PlotFrom(PlotPoint(g, lv, h, i), lv, h, i + 1)

\* the grid whose rows the function joins into the returned text
MakeAsciiLineChart(vs, h) == PlotFrom(BlankGrid(Len(vs), h), Levels(vs, h), h, 0)

(***************************************************************************)
(* Values of the store: dicts, the history file, the README, the answers   *)
(* of the ticker endpoint                                                  *)
(***************************************************************************)
\* {} : the dict with no keys
EmptyDict == [k \in {} |-> 0]

\* the dict fetch_api returns on success
Observation(t, u, k) == [timestamp |-> t, USD |-> u, KRW |-> k]

\* history.txt is absent, or holds: text that is not JSON; bytes that are not
\* UTF-8; JSON nested too deeply for the decoder; a JSON value that is not a
\* list and is falsy (null, {}, 0) or truthy ({"a": 1}, 5); a JSON list
AbsentFile == [kind |-> "absent", records |-> <<>>]

InvalidJsonFile == [kind |-> "invalid_json", records |-> <<>>]

NotUtf8File == [kind |-> "not_utf8", records |-> <<>>]

TooDeepFile == [kind |-> "too_deep", records |-> <<>>]

FalsyJsonFile == [kind |-> "json_falsy", records |-> <<>>]

TruthyJsonFile == [kind |-> "json_truthy", records |-> <<>>]

ListFile(recs) == [kind |-> "list", records |-> recs]

\* README.md before the program has written it
NoReadme == [written |-> FALSE, usd_chart |-> BlankGrid(0, 0), krw_chart |-> BlankGrid(0, 0),
             price_labels |-> <<>>, now_str |-> 0]

\* data[cur] in a JSON object: a dict with a "last" price, a dict without
\* one, or a value that is not a dict
Entries ==
    {[kind |-> "quote", last |-> p] : p \in Prices}
    \cup {[kind |-> "no_last", last |-> 0], [kind |-> "not_dict", last |-> 0]}

\* the body response.json() returns: a JSON object with entries for some of
\* the currencies; a value "in" does not apply to (null, a number); a list or
\* string that holds both currency names; a list or string that does not
Bodies ==
    {[kind |-> "object", entries |-> d] :
        d \in UNION {[S -> Entries] : S \in SUBSET {usd, kor}}}
    \cup {[kind |-> k, entries |-> EmptyDict] :
            k \in {"not_container", "sequence_with_names", "sequence_without_names"}}

NoBody == [kind |-> "none", entries |-> EmptyDict]

\* what requests.get / raise_for_status / response.json() can do: raise a
\* RequestException; fail to decode the body, raising either a ValueError or
\* (requests >= 2.27) a JSONDecodeError that is also a RequestException;
\* return the decoded body
Responses ==
    {[status |-> st, body |-> NoBody] :
        st \in {"request_error", "bad_json_request_exception", "bad_json_value_error"}}
    \cup {[status |-> "ok", body |-> b] : b \in Bodies}

NoResponse == [status |-> "none", body |-> NoBody]

\* a history left by n earlier runs, stamped 1..n
SeedHistory(n) ==
    [i \in 1..n |-> Observation(i, 1 + (i % 2), 1 + ((i \div 2) % 2))]

\* a JSON list whose only item is a dict without the KRW key
IncompleteHistory == <<[timestamp |-> 1, USD |-> 1]>>

InitialFiles ==
    {AbsentFile, InvalidJsonFile, NotUtf8File, TooDeepFile, FalsyJsonFile, TruthyJsonFile}
    \cup {ListFile(SeedHistory(n)) : n \in 0..MAX_RETAINED}
    \cup {ListFile(IncompleteHistory)}

ClockStart == MAX_RETAINED + 1

(***************************************************************************)
(* fetch_api                                                               *)
(***************************************************************************)
\* the exception data[cur]["last"] raises, "none" when it yields the price
LastPriceError(entry) ==
    IF entry.kind = "no_last" THEN "KeyError"
    ELSE IF entry.kind = "not_dict" THEN "TypeError"
    ELSE "none"

FetchApi(resp, now) ==
    IF resp.status \in {"request_error", "bad_json_request_exception"}
    THEN [data |-> EmptyDict, raised |-> "none", msgs |-> <<"api_request_failed">>]
    ELSE IF resp.status = "bad_json_value_error"
    THEN [data |-> EmptyDict, raised |-> "none", msgs |-> <<"json_parse_failed">>]
    ELSE IF resp.body.kind = "not_container"
    THEN [data |-> EmptyDict, raised |-> "TypeError", msgs |-> <<>>]
    ELSE IF resp.body.kind = "sequence_without_names"
    THEN [data |-> EmptyDict, raised |-> "none", msgs |-> <<"missing_currency">>]
    ELSE IF resp.body.kind = "sequence_with_names"
    THEN [data |-> EmptyDict, raised |-> "TypeError", msgs |-> <<>>]
    ELSE LET data == resp.body.entries
         IN  IF usd \notin DOMAIN data \/ kor \notin DOMAIN data
             THEN [data |-> EmptyDict, raised |-> "none", msgs |-> <<"missing_currency">>]
             ELSE IF LastPriceError(data[usd]) # "none"
             THEN [data |-> EmptyDict, raised |-> LastPriceError(data[usd]), msgs |-> <<>>]
             ELSE IF LastPriceError(data[kor]) # "none"
             THEN [data |-> EmptyDict, raised |-> LastPriceError(data[kor]), msgs |-> <<>>]
             ELSE [data |-> Observation(now, data[usd].last, data[kor].last),
                   raised |-> "none", msgs |-> <<>>]

(***************************************************************************)
(* update_history                                                          *)
(***************************************************************************)
\* the exception open() + json.load(f) raises on the file, "none" when a
\* value is loaded
JsonLoadError(file) ==
    IF file.kind = "invalid_json" THEN "JSONDecodeError"
    ELSE IF file.kind = "not_utf8" THEN "UnicodeDecodeError"
    ELSE IF file.kind = "too_deep" THEN "RecursionError"
    ELSE "none"

\* mutant: the trim keeps the first MAX_RETAINED records
TrimKeepOldest(history) ==
    IF Len(history) > MAX_RETAINED THEN SubSeq(history, 1, MAX_RETAINED) ELSE history

\* if len(history) > 10: history = history[-10:]
Trim(history) ==
    IF Len(history) > MAX_RETAINED THEN LastK(history, MAX_RETAINED) ELSE history

\* mutant: the record is appended without any trim
AppendNoTrim(history, obj) == Append(history, obj)

\* history.append(fetched_object) followed by the trim
AppendTrim(history, obj) == Trim(Append(history, obj))

\* lines 59-69: the list update_history appends to, or the exception that
\* ends it: only json.JSONDecodeError is caught; a loaded value that is not
\* a list has no append
LoadForUpdate(file) ==
    IF file.kind = "absent"
    THEN [raised |-> "none", history |-> <<>>, msgs |-> <<>>]
    ELSE IF JsonLoadError(file) = "JSONDecodeError"
    THEN [raised |-> "none", history |-> <<>>, msgs |-> <<"history_parse_failed">>]
    ELSE IF JsonLoadError(file) # "none"
    THEN [raised |-> JsonLoadError(file), history |-> <<>>, msgs |-> <<>>]
    ELSE IF file.kind # "list"
    THEN [raised |-> "AttributeError", history |-> <<>>, msgs |-> <<>>]
    ELSE [raised |-> "none", history |-> file.records, msgs |-> <<>>]

UpdateHistory(file, obj) ==
    IF DOMAIN obj = {}
    THEN [file |-> file, raised |-> "none", msgs |-> <<"skip_history_update">>]
    ELSE LET loaded == LoadForUpdate(file)
         IN  IF loaded.raised # "none"
             THEN [file |-> file, raised |-> loaded.raised, msgs |-> loaded.msgs]
             ELSE [file |-> ListFile(AppendTrim(loaded.history, obj)),
                   raised |-> "none", msgs |-> loaded.msgs]

(***************************************************************************)
(* update_readme                                                           *)
(***************************************************************************)
\* the README written from a non-empty history of complete records
RenderReadme(history, now) ==
    LET usd_prices == [i \in 1..Len(history) |-> history[i].USD]
        krw_prices == [i \in 1..Len(history) |-> history[i].KRW]
        timestamps == [i \in 1..Len(history) |-> history[i].timestamp]
    IN  [written      |-> TRUE,
         usd_chart    |-> MakeAsciiLineChart(usd_prices, DefaultHeight),
         krw_chart    |-> MakeAsciiLineChart(krw_prices, DefaultHeight),
         price_labels |-> [i \in 1..Len(history) |->
                             <<timestamps[i], usd_prices[i], krw_prices[i]>>],
         now_str      |-> now]

\* some item of the list lacks a key the list comprehensions read
MissingKey(history) ==
    \E i \in 1..Len(history) : ~({"USD", "KRW", "timestamp"} \subseteq DOMAIN history[i])

\* mutant: an empty history is rendered like any other
UpdateReadmeNoEmptyCheck(file, rd, now) ==
    IF file.kind = "absent"
    THEN [readme |-> rd, raised |-> "none", msgs |-> <<"no_history_file">>, charts |-> 0]
    ELSE IF JsonLoadError(file) # "none"
    THEN [readme |-> rd, raised |-> JsonLoadError(file), msgs |-> <<>>, charts |-> 0]
    ELSE IF file.kind # "list"
    THEN [readme |-> rd, raised |-> "TypeError", msgs |-> <<>>, charts |-> 0]
    ELSE IF MissingKey(file.records)
    THEN [readme |-> rd, raised |-> "KeyError", msgs |-> <<>>, charts |-> 0]
    ELSE [readme |-> [written |-> TRUE, usd_chart |-> BlankGrid(0, DefaultHeight),
                      krw_chart |-> BlankGrid(0, DefaultHeight),
                      price_labels |-> <<>>, now_str |-> now],
          raised |-> "none", msgs |-> <<>>, charts |-> 2]

UpdateReadme(file, rd, now) ==
    IF file.kind = "absent"
    THEN [readme |-> rd, raised |-> "none", msgs |-> <<"no_history_file">>, charts |-> 0]
    ELSE IF JsonLoadError(file) # "none"
    THEN [readme |-> rd, raised |-> JsonLoadError(file), msgs |-> <<>>, charts |-> 0]
    ELSE IF file.kind = "json_falsy" \/ (file.kind = "list" /\ file.records = <<>>)
    THEN [readme |-> rd, raised |-> "none", msgs |-> <<"history_empty">>, charts |-> 0]
    ELSE IF file.kind = "json_truthy"
    THEN [readme |-> rd, raised |-> "TypeError", msgs |-> <<>>, charts |-> 0]
    ELSE IF MissingKey(file.records)
    THEN [readme |-> rd, raised |-> "KeyError", msgs |-> <<>>, charts |-> 0]
    ELSE [readme |-> RenderReadme(file.records, now),
          raised |-> "none", msgs |-> <<>>, charts |-> 2]

(***************************************************************************)
(* __main__ : now is the clock read by fetch_api, later the one read by    *)
(* update_readme.  An exception ends the script where it is raised.        *)
(***************************************************************************)
\* mutant: the script updates the history and the README whatever was fetched
RunMainUnguarded(file, rd, resp, now, later) ==
    LET fetched == FetchApi(resp, now)
        hist    == UpdateHistory(file, fetched.data)
        doc     == UpdateReadme(hist.file, rd, later)
    IN  IF fetched.raised # "none"
        THEN [file |-> file, readme |-> rd, arg |-> fetched.data,
              raised |-> fetched.raised, msgs |-> fetched.msgs, charts |-> 0]
        ELSE IF hist.raised # "none"
        THEN [file |-> hist.file, readme |-> rd, arg |-> fetched.data,
              raised |-> hist.raised, msgs |-> fetched.msgs \o hist.msgs, charts |-> 0]
        ELSE [file |-> hist.file, readme |-> doc.readme, arg |-> fetched.data,
              raised |-> doc.raised, msgs |-> fetched.msgs \o hist.msgs \o doc.msgs,
              charts |-> doc.charts]

RunMain(file, rd, resp, now, later) ==
    LET fetched == FetchApi(resp, now)
        hist    == UpdateHistory(file, fetched.data)
        doc     == UpdateReadme(hist.file, rd, later)
    IN  IF fetched.raised # "none"
        THEN [file |-> file, readme |-> rd, arg |-> fetched.data,
              raised |-> fetched.raised, msgs |-> fetched.msgs, charts |-> 0]
        ELSE IF DOMAIN fetched.data = {}
        THEN [file |-> file, readme |-> rd, arg |-> fetched.data, raised |-> "none",
              msgs |-> fetched.msgs \o <<"collection_failed">>, charts |-> 0]
        ELSE IF hist.raised # "none"
        THEN [file |-> hist.file, readme |-> rd, arg |-> fetched.data,
              raised |-> hist.raised, msgs |-> fetched.msgs \o hist.msgs, charts |-> 0]
        ELSE [file |-> hist.file, readme |-> doc.readme, arg |-> fetched.data,
              raised |-> doc.raised, msgs |-> fetched.msgs \o hist.msgs \o doc.msgs,
              charts |-> doc.charts]

(***************************************************************************)
(* The store as a state machine: runs of the script and calls of its two   *)
(* functions, one after the other (runs never overlap).  last records the  *)
(* operation that produced the current state: its input, the file it       *)
(* started from, the exception that ended it and what it reported.         *)
(***************************************************************************)
InitLast == [op |-> "init", resp |-> NoResponse, arg |-> EmptyDict, before |-> AbsentFile,
             raised |-> "none", msgs |-> <<>>, charts |-> 0]

StoreIdle ==
    /\ historyFile = AbsentFile
    /\ readme = NoReadme
    /\ clock = ClockStart
    /\ last = InitLast

ChartIdle ==
    /\ values = <<>>
    /\ height = DefaultHeight
    /\ levels = <<>>
    /\ grid = BlankGrid(0, 0)
    /\ rendered = FALSE

Init ==
    /\ historyFile \in InitialFiles
    /\ readme = NoReadme
    /\ clock = ClockStart
    /\ last = [InitLast EXCEPT !.before = historyFile]
    /\ ChartIdle

\* python btc_update.py; the clock may move on between its two reads
Main ==
    /\ clock < ClockStart + MaxRuns
    /\ \E resp \in Responses, later \in {clock, clock + 1} :
          LET run == RunMain(historyFile, readme, resp, clock, later)
          IN  /\ historyFile' = run.file
              /\ readme' = run.readme
              /\ last' = [op |-> "main", resp |-> resp, arg |-> run.arg,
                          before |-> historyFile, raised |-> run.raised,
                          msgs |-> run.msgs, charts |-> run.charts]
    /\ clock' = clock + 1
    /\ UNCHANGED chartVars

CallUpdateHistory ==
    /\ clock < ClockStart + MaxRuns
    /\ \E obj \in {EmptyDict} \cup {Observation(clock, u, k) : u \in Prices, k \in Prices} :
          LET hist == UpdateHistory(historyFile, obj)
          IN  /\ historyFile' = hist.file
              /\ last' = [op |-> "update_history", resp |-> NoResponse, arg |-> obj,
                          before |-> historyFile, raised |-> hist.raised,
                          msgs |-> hist.msgs, charts |-> 0]
    /\ clock' = clock + 1
    /\ UNCHANGED <<readme, chartVars>>

CallUpdateReadme ==
    /\ clock < ClockStart + MaxRuns
    /\ LET doc == UpdateReadme(historyFile, readme, clock)
       IN  /\ readme' = doc.readme
           /\ last' = [op |-> "update_readme", resp |-> NoResponse, arg |-> EmptyDict,
                       before |-> historyFile, raised |-> doc.raised,
                       msgs |-> doc.msgs, charts |-> doc.charts]
    /\ clock' = clock + 1
    /\ UNCHANGED <<historyFile, chartVars>>

Next == Main \/ CallUpdateHistory \/ CallUpdateReadme

Spec == Init /\ [][Next]_vars

(***************************************************************************)
(* The renderer on its own: an input is drawn, then rendered               *)
(***************************************************************************)
Ramp(n) == [i \in 1..n |-> i]

ChartInputs ==
    UNION {[1..n -> 1..MaxVal] : n \in 1..MaxLen} \cup {Ramp(n) : n \in 1..MaxRamp}

\* inputs on a tall chart, where the double product can fall below an integer
WideInputs == {<<1, 2, WideHeight>>, <<WideHeight, 2, 1>>, <<1, 3, WideHeight, 5>>}

InitChart ==
    /\ StoreIdle
    /\ \/ values \in ChartInputs /\ height \in 1..MaxHeight
       \/ values \in WideInputs /\ height = WideHeight
    /\ levels = <<>>
    /\ grid = BlankGrid(0, 0)
    /\ rendered = FALSE

Render ==
    /\ ~rendered
    /\ levels' = Levels(values, height)
    /\ grid' = MakeAsciiLineChart(values, height)
    /\ rendered' = TRUE
    /\ UNCHANGED <<values, height, storeVars>>

NextChart == Render

SpecChart == InitChart /\ [][NextChart]_vars

(***************************************************************************)
(* Properties of the history store (specification Spec)                    *)
(***************************************************************************)
Smaller(a, b) == IF a <= b THEN a ELSE b

\* the last operation was an update_history that received an observation
HistoryUpdated ==
    /\ last.op \in {"update_history", "main"}
    /\ DOMAIN last.arg # {}

\* the file the last operation started from was absent or a list of records
BeforeParseable == last.before.kind \in {"absent", "list"}

\* the file the last operation started from was absent or could not be parsed
BeforeAbsentOrUnparseable ==
    last.before.kind \in {"absent", "invalid_json", "not_utf8", "too_deep"}

\* the fetch fails: request error, unparseable body, or no USD or KRW entry
FetchFails(resp) ==
    \/ resp.status \in {"request_error", "bad_json_request_exception", "bad_json_value_error"}
    \/ /\ resp.status = "ok"
       /\ \/ resp.body.kind = "sequence_without_names"
          \/ /\ resp.body.kind = "object"
             /\ ~({usd, kor} \subseteq DOMAIN resp.body.entries)

\* C1: an update_history run with an observation over a parseable history of
\* n records leaves min(10, n+1) records: the most recent min(9, n) previous
\* records in their order, then the new observation as the last record.
C1_AppendKeepsMostRecent ==
    (HistoryUpdated /\ BeforeParseable) =>
        LET old == last.before.records
            n   == Len(old)
            new == historyFile.records
            m   == Len(new)
        IN  /\ historyFile.kind = "list"
            /\ m = Smaller(MAX_RETAINED, n + 1)
            /\ new[m] = last.arg
            /\ \A j \in 1..Smaller(MAX_RETAINED - 1, n) : new[m - j] = old[n - j + 1]

C1_Witness ==
    /\ last.op = "update_history"
    /\ DOMAIN last.arg # {}
    /\ last.before.kind = "list"
    /\ Len(last.before.records) = MAX_RETAINED
    /\ Len(historyFile.records) = MAX_RETAINED
    /\ historyFile.records[MAX_RETAINED] = last.arg

\* C2: whatever runs happen, with fetches succeeding or failing, the
\* persisted history never holds more than 10 records.
C2_AtMostMaxRetained == Len(historyFile.records) <= MAX_RETAINED

C2_Witness ==
    /\ last.op = "main"
    /\ DOMAIN last.arg # {}
    /\ Len(last.before.records) = MAX_RETAINED
    /\ Len(historyFile.records) = MAX_RETAINED
    /\ historyFile.records[1] = last.before.records[2]

\* C3: a run whose fetch fails (request error, unparseable body, or a body
\* without the USD or the KRW entry) changes neither the persisted history
\* nor the README.
C3_FailedFetchChangesNothing ==
    [][(last'.op = "main" /\ FetchFails(last'.resp))
          => (historyFile' = historyFile /\ readme' = readme)]_vars

C3_Witness ==
    /\ last.op = "main"
    /\ last.resp.status = "ok"
    /\ last.resp.body.kind = "object"
    /\ DOMAIN last.resp.body.entries = {usd}
    /\ readme.written
    /\ historyFile.records # <<>>
    /\ historyFile = last.before

\* C4: every operation that loads the history treats an absent or unparseable
\* file as an empty history and never raises; a successful-fetch run over an
\* unparseable file ends with exactly one record, the new observation.
C4_LoadNeverRaises ==
    (last.op \in {"update_history", "update_readme", "main"} /\ BeforeAbsentOrUnparseable) =>
        /\ last.raised \notin {"JSONDecodeError", "UnicodeDecodeError", "RecursionError"}
        /\ (last.op = "update_readme" => last.charts = 0 /\ last.msgs # <<>>)
        /\ (HistoryUpdated => historyFile = ListFile(<<last.arg>>))

\* C5: update_readme over an absent history file or one with no observation
\* reports it and produces nothing: no chart is computed and the README is
\* left as it was.
C5_EmptyHistoryNotRendered ==
    [][(/\ last'.op = "update_readme"
        /\ \/ historyFile.kind = "absent"
           \/ (historyFile.kind = "list" /\ historyFile.records = <<>>))
          => /\ readme' = readme
             /\ last'.charts = 0
             /\ last'.raised = "none"
             /\ last'.msgs # <<>>]_vars

C5_Witness ==
    /\ last.op = "update_readme"
    /\ historyFile = ListFile(<<>>)
    /\ last.before = historyFile
    /\ last.msgs = <<"history_empty">>
    /\ last.charts = 0
    /\ ~readme.written

(***************************************************************************)
(* Properties of the renderer (specification SpecChart)                    *)
(***************************************************************************)
Abs(x) == IF x < 0 THEN -x ELSE x

NonConstant == PyMin(values) # PyMax(values)

\* numerator and denominator of the scaled position of the value at i
ScaledNum(i) == (values[i] - PyMin(values)) * (height - 1)

ScaledDen == PyMax(values) - PyMin(values)

\* the row of the point of source position i
PointRow(i) == height - 1 - levels[i + 1]

IsRamp == values = Ramp(Len(values))

RampLevelsSpan ==
    /\ \A i \in 1..(Len(levels) - 1) : levels[i] <= levels[i + 1]
    /\ \A i \in 1..Len(levels) : 0 <= levels[i] /\ levels[i] <= height - 1
    /\ \E i \in 1..Len(levels) : levels[i] = 0
    /\ \E i \in 1..Len(levels) : levels[i] = height - 1

\* C6 as stated: for [1, 2, ..., n] with every n >= 1 the levels are
\* non-decreasing, lie in [0, H-1], and the smallest is 0 and the largest H-1.
C6_RampSpansFromOne == (rendered /\ IsRamp /\ Len(values) >= 1) => RampLevelsSpan

\* C6 amended: for [1, 2, ..., n] with every n >= 2 the levels are
\* non-decreasing, lie in [0, H-1], and the smallest is 0 and the largest H-1.
C6_RampSpansFromTwo == (rendered /\ IsRamp /\ Len(values) >= 2) => RampLevelsSpan

C6_Witness ==
    /\ rendered
    /\ IsRamp
    /\ Len(values) > height
    /\ height >= 3
    /\ \E i \in 1..(Len(levels) - 1) : levels[i] = levels[i + 1]
    /\ levels[Len(levels)] = height - 1

\* C7: in the returned grid every position i has the point glyph '*' at row
\* height-1-level[i], column i.
C7_PointsMarked ==
    rendered => \A i \in 0..(Len(values) - 1) : grid[PointRow(i)][i] = "*"

\* C8: for consecutive positions i-1, i with level[i] < level[i-1] the grid
\* holds '\' in column i-1 at every row strictly between the two point rows.
C8_FallingFilled ==
    rendered =>
        \A i \in 1..(Len(values) - 1) :
            levels[i + 1] < levels[i] =>
                \A y \in 0..(height - 1) :
                    (PointRow(i - 1) < y /\ y < PointRow(i)) => grid[y][i - 1] = "\\"

\* C9 as stated: for a non-constant sequence the level of each value is its
\* scaled position (v - min) / (max - min) * (H - 1) rounded to the nearest
\* integer.
C9_LevelIsNearest ==
    (rendered /\ NonConstant) =>
        \A i \in 1..Len(values) : 2 * Abs(levels[i] * ScaledDen - ScaledNum(i)) <= ScaledDen

\* C9 amended: for a non-constant sequence the level of each value is its
\* scaled position x = (v - min) / (max - min) * (H - 1) truncated by int():
\* level <= x <= level + 1, so never rounded up; the upper bound is reached
\* only where the double product falls just below an integer x.
C9_LevelIsTruncated ==
    (rendered /\ NonConstant) =>
        \A i \in 1..Len(values) :
            /\ levels[i] * ScaledDen <= ScaledNum(i)
            /\ ScaledNum(i) <= (levels[i] + 1) * ScaledDen
            /\ (ScaledNum(i) % ScaledDen # 0 => ScaledNum(i) < (levels[i] + 1) * ScaledDen)

C9_Witness ==
    /\ rendered
    /\ NonConstant
    /\ height = DefaultHeight
    /\ \E i \in 1..Len(values) :
          /\ 2 * (ScaledNum(i) % ScaledDen) > ScaledDen
          /\ levels[i] = ScaledNum(i) \div ScaledDen

\* C10: for consecutive positions i-1, i with level[i] > level[i-1] the grid
\* holds '/' in column i-1 at every row strictly between the two point rows
\* and at no other row of that column.
C10_RisingFilled ==
    rendered =>
        \A i \in 1..(Len(values) - 1) :
            levels[i + 1] > levels[i] =>
                \A y \in 0..(height - 1) :
                    (grid[y][i - 1] = "/") <=> (PointRow(i) < y /\ y < PointRow(i - 1))

C10_Witness ==
    /\ rendered
    /\ \E i \in 1..(Len(values) - 1) :
          /\ levels[i + 1] >= levels[i] + 3
          /\ grid[PointRow(i) + 1][i - 1] = "/"
          /\ grid[PointRow(i - 1) - 1][i - 1] = "/"

=============================================================================
